---------------------------- MODULE Spec2Model ----------------------------
(***************************************************************************)
(* Portfolio statement service (app.py, engine.py, models.py).             *)
(*                                                                         *)
(* The database tables are the state.  POST /trade (add_trade) is the one  *)
(* write path, GET /portfolio/<id>/statement (generate_portfolio_statement)*)
(* reads the tables and computes the statement.                            *)
(*                                                                         *)
(* Numbers.  The program computes in IEEE doubles.  A float is modelled as *)
(* a pair <<n, d>>: for d > 0 the exact rational n/d in lowest terms, and  *)
(* for d = 0 a non-finite value: <<0,0>> is NaN, <<1,0>> is +inf and       *)
(* <<-1,0>> is -inf.  Arithmetic on finite values is exact, so binary      *)
(* representation error of doubles is outside the model.  Dates are day    *)
(* numbers, so a timedelta is a difference of integers.                    *)
(***************************************************************************)
EXTENDS Integers, Sequences, FiniteSets, TLC

VARIABLES
    trades,          \* table trades, rows in insertion (id) order
    cash,            \* table cash_balances, rows in insertion (id) order
    daily_prices,    \* table daily_prices: set of rows
    index_prices,    \* table index_prices: set of rows
    market_indices,  \* table market_indices: set of index ids
    dblock,          \* the worker holding SQLite's write lock, or NoWorker
    sess,            \* per worker: the request in progress and its session
    response         \* the last HTTP response sent

vars == <<trades, cash, daily_prices, index_prices, market_indices,
          dblock, sess, response>>

dbvars == <<trades, cash, daily_prices, index_prices, market_indices>>

----------------------------------------------------------------------------
(* Floats as exact rationals, with the three non-finite values.            *)

Abs(n) == IF n < 0 THEN -n ELSE n

RECURSIVE GCD(_, _)
GCD(a, b) == IF b = 0 THEN a ELSE GCD(b, a % b)

Norm(n, d) ==
    IF d = 0 THEN <<(IF n > 0 THEN 1 ELSE IF n < 0 THEN -1 ELSE 0), 0>>
    ELSE IF n = 0 THEN <<0, 1>>
    ELSE LET s == IF d < 0 THEN -1 ELSE 1
             g == GCD(Abs(n), Abs(d))
         IN  <<(s * n) \div g, (s * d) \div g>>

F(i) == <<i, 1>>
NaN == <<0, 0>>
PosInf == <<1, 0>>
NegInf == <<-1, 0>>

IsFinite(x) == x[2] # 0
IsNaN(x) == x = NaN

\* x + y, x - y, x * y, x / y as IEEE arithmetic gives them on these values
FAdd(x, y) ==
    IF IsFinite(x) /\ IsFinite(y) THEN Norm(x[1] * y[2] + y[1] * x[2], x[2] * y[2])
    ELSE IF IsNaN(x) \/ IsNaN(y) THEN NaN
    ELSE IF IsFinite(x) THEN y
    ELSE IF IsFinite(y) THEN x
    ELSE IF x = y THEN x ELSE NaN

FNeg(x) == <<-x[1], x[2]>>

FSub(x, y) == FAdd(x, FNeg(y))

FMul(x, y) ==
    IF IsFinite(x) /\ IsFinite(y) THEN Norm(x[1] * y[1], x[2] * y[2])
    ELSE IF IsNaN(x) \/ IsNaN(y) \/ x[1] = 0 \/ y[1] = 0 THEN NaN
    ELSE Norm(x[1] * y[1], 0)

\* numpy/pandas division: 0/0 is NaN, x/0 is +-inf
FDiv(x, y) ==
    IF IsFinite(x) /\ IsFinite(y) THEN Norm(x[1] * y[2], x[2] * y[1])
    ELSE IF IsNaN(x) \/ IsNaN(y) THEN NaN
    ELSE IF IsFinite(x) THEN F(0)
    ELSE IF IsFinite(y) THEN Norm(x[1] * (IF y[1] < 0 THEN -1 ELSE 1), 0)
    ELSE NaN

\* x < y, x > 0, x == 0: every comparison with NaN is false
FLt(x, y) ==
    IF IsNaN(x) \/ IsNaN(y) THEN FALSE
    ELSE IF IsFinite(x) /\ IsFinite(y) THEN x[1] * y[2] < y[1] * x[2]
    ELSE IF IsFinite(x) THEN y = PosInf
    ELSE IF IsFinite(y) THEN x = NegInf
    ELSE x = NegInf /\ y = PosInf

FIsZero(x) == IsFinite(x) /\ x[1] = 0

\* Python truthiness of a float or None-able number: 0.0 is falsy, NaN is truthy
Truthy(x) == ~FIsZero(x)

RECURSIVE Pow10(_)
Pow10(k) == IF k = 0 THEN 1 ELSE 10 * Pow10(k - 1)

\* round(x, nd): to nd decimals, ties to even; a non-finite value is unchanged
Round(x, nd) ==
    IF ~IsFinite(x) THEN x
    ELSE LET p == Pow10(nd)
             q == (x[1] * p) \div x[2]
             r == (x[1] * p) - q * x[2]
             up == \/ 2 * r > x[2]
                   \/ (2 * r = x[2] /\ q % 2 = 1)
         IN  Norm(IF up THEN q + 1 ELSE q, p)

\* a string where a number may stand in its place (an output field, a nullable
\* column) is the 1-tuple of it, so that it compares with a float; None likewise
Str(s) == <<s>>
NA == Str("N/A")
None == <<"None">>

----------------------------------------------------------------------------
(* The tables the web application never writes: portfolios and the         *)
(* security master.  A security row is [id, ticker, currency, beta], beta  *)
(* nullable.                                                               *)

Portfolios == {1}

Securities ==
    { [id |-> 101, ticker |-> "AAPL", currency |-> "USD", beta |-> <<129, 100>>],
      [id |-> 111, ticker |-> "PNNY", currency |-> "GBP", beta |-> None] }

SecurityIds == {s.id : s \in Securities}

\* Portfolio.query.get(id) and Security.query.get(id) find a row
PortfolioExists(id) == id \in Portfolios

SecurityExists(id) == id \in SecurityIds

\* the row Security.query.get(id) and the relationship trade.security give
GetSecurity(id) == CHOOSE s \in Securities : s.id = id

----------------------------------------------------------------------------
(* Queries.                                                                *)

\* the rows of a sequence in every order ORDER BY key allows: rows with equal
\* keys come back in an order SQL leaves open
TradeDateKey(t) == t.trade_date

OrderBy(rows) ==
    LET n == Len(rows)
        perms == {p \in [1..n -> 1..n] :
                     /\ \A i, j \in 1..n : i # j => p[i] # p[j]
                     /\ \A i, j \in 1..n :
                           i < j => TradeDateKey(rows[p[i]]) <= TradeDateKey(rows[p[j]])}
    IN  {[i \in 1..n |-> rows[p[i]]] : p \in perms}

\* Trade.query.filter(portfolio_id == pid, trade_date <= report_date)
\*      .order_by(Trade.trade_date).all()
TradesUpTo(ledger, pid, report_date) ==
    OrderBy(SelectSeq(ledger, LAMBDA t : t.portfolio_id = pid /\ t.trade_date <= report_date))

\* the same query joined with Security: a trade without a security row drops out
TradesUpToJoinSecurity(ledger, pid, report_date) ==
    OrderBy(SelectSeq(ledger, LAMBDA t : /\ t.portfolio_id = pid
                                         /\ t.trade_date <= report_date
                                         /\ t.security_id \in SecurityIds))

\* the most recent closing price of the security whatever its date
LatestPriceOfAll(security_id, target_date) ==
    LET rows == {p \in daily_prices : p.security_id = security_id}
    IN  IF rows = {} THEN F(0)
        ELSE (CHOOSE p \in rows : \A q \in rows : q.price_date <= p.price_date).closing_price

\* get_price_on_date: the most recent closing price on or before target_date, else 0
get_price_on_date(security_id, target_date) ==
    LET rows == {p \in daily_prices : p.security_id = security_id /\ p.price_date <= target_date}
    IN  IF rows = {} THEN F(0)
        ELSE (CHOOSE p \in rows : \A q \in rows : q.price_date <= p.price_date).closing_price

\* CashBalance.query.filter_by(portfolio_id=pid).all()
CashBalancesOf(rows, pid) == SelectSeq(rows, LAMBDA cb : cb.portfolio_id = pid)

----------------------------------------------------------------------------
(* generate_portfolio_statement, the replay of the ledger into holdings.   *)
(* holdings is the dict of the code, kept as the sequence of its entries   *)
(* in insertion order.                                                     *)

HoldingIndex(holdings, sec_id) ==
    IF \E i \in 1..Len(holdings) : holdings[i].sec_id = sec_id
    THEN CHOOSE i \in 1..Len(holdings) : holdings[i].sec_id = sec_id
    ELSE 0

NewHolding(trade) ==
    [sec_id |-> trade.security_id, quantity |-> F(0), total_cost |-> F(0),
     total_quantity_bought |-> F(0), first_trade_date |-> trade.trade_date]

\* ApplyTrade with a sale of more than is held taken as a sale of all of it
ApplyTradeClipping(h, trade) ==
    IF trade.trade_type = "BUY"
    THEN [h EXCEPT !.quantity = FAdd(@, trade.quantity),
                   !.total_cost = FAdd(@, FMul(trade.quantity, trade.price_per_unit)),
                   !.total_quantity_bought = FAdd(@, trade.quantity),
                   !.first_trade_date =
                       IF trade.trade_date < @ THEN trade.trade_date ELSE @]
    ELSE IF trade.trade_type = "SELL"
    THEN [h EXCEPT !.quantity = IF FLt(@, trade.quantity) THEN F(0)
                                ELSE FSub(@, trade.quantity)]
    ELSE h

\* ApplyTrade with the average cost re-based on a sale
ApplyTradeRebasing(h, trade) ==
    IF trade.trade_type = "BUY"
    THEN [h EXCEPT !.quantity = FAdd(@, trade.quantity),
                   !.total_cost = FAdd(@, FMul(trade.quantity, trade.price_per_unit)),
                   !.total_quantity_bought = FAdd(@, trade.quantity),
                   !.first_trade_date =
                       IF trade.trade_date < @ THEN trade.trade_date ELSE @]
    ELSE IF trade.trade_type = "SELL"
    THEN [h EXCEPT !.quantity = FSub(@, trade.quantity),
                   !.total_quantity_bought = FSub(@, trade.quantity)]
    ELSE h

\* the body of the loop over trades for one trade on its holding
ApplyTrade(h, trade) ==
    IF trade.trade_type = "BUY"
    THEN [h EXCEPT !.quantity = FAdd(@, trade.quantity),
                   !.total_cost = FAdd(@, FMul(trade.quantity, trade.price_per_unit)),
                   !.total_quantity_bought = FAdd(@, trade.quantity),
                   !.first_trade_date =
                       IF trade.trade_date < @ THEN trade.trade_date ELSE @]
    ELSE IF trade.trade_type = "SELL"
    THEN [h EXCEPT !.quantity = FSub(@, trade.quantity)]
    ELSE h

RECURSIVE ReplayFrom(_, _, _)
ReplayFrom(ts, i, holdings) ==
    IF i > Len(ts) THEN holdings
    ELSE LET trade == ts[i]
             k == HoldingIndex(holdings, trade.security_id)
             hs == IF k = 0 THEN Append(holdings, NewHolding(trade)) ELSE holdings
             j == IF k = 0 THEN Len(hs) ELSE k
         IN  ReplayFrom(ts, i + 1, [hs EXCEPT ![j] = ApplyTrade(hs[j], trade)])

ReplayTrades(ts) == ReplayFrom(ts, 1, <<>>)

\* Reportable with quantity >= 0 for quantity > 0
ReportableFromZero(h) == ~FLt(h.quantity, F(0)) /\ ~FIsZero(h.total_quantity_bought)

\* the holdings the second loop reports: positive quantity, something bought
Reportable(h) == FLt(F(0), h.quantity) /\ ~FIsZero(h.total_quantity_bought)

BetaOrZero(beta) == IF beta = None \/ ~Truthy(beta) THEN F(0) ELSE beta

\* the unrounded current_value of the loop, which goes into total_portfolio_value
CurrentValue(h, report_date) == FMul(get_price_on_date(h.sec_id, report_date), h.quantity)

\* one entry of holdings_list
HoldingEntry(h, report_date) ==
    LET security == GetSecurity(h.sec_id)
        current_price == get_price_on_date(h.sec_id, report_date)
        avg_buy_price == FDiv(h.total_cost, h.total_quantity_bought)
        buy_value == FMul(avg_buy_price, h.quantity)
        current_value == FMul(current_price, h.quantity)
        gain_loss == FSub(current_value, buy_value)
    IN  [ticker |-> security.ticker,
         quantity |-> h.quantity,
         average_buy_price |-> Round(avg_buy_price, 2),
         buy_value |-> Round(buy_value, 2),
         current_price |-> Round(current_price, 2),
         current_value |-> Round(current_value, 2),
         gain_loss |-> Round(gain_loss, 2),
         holding_period_days |-> report_date - h.first_trade_date,
         beta |-> BetaOrZero(security.beta)]

HoldingsList(holdings, report_date) ==
    LET kept == SelectSeq(holdings, Reportable)
    IN  [i \in 1..Len(kept) |-> HoldingEntry(kept[i], report_date)]

RECURSIVE SumSeq(_, _)
SumSeq(xs, i) == IF i > Len(xs) THEN F(0) ELSE FAdd(xs[i], SumSeq(xs, i + 1))

\* total_portfolio_value after the loop over holdings
HoldingsValue(holdings, report_date) ==
    LET kept == SelectSeq(holdings, Reportable)
    IN  SumSeq([i \in 1..Len(kept) |-> CurrentValue(kept[i], report_date)], 1)

CashList(cash_balances) ==
    [i \in 1..Len(cash_balances) |->
        [currency |-> cash_balances[i].currency, amount |-> cash_balances[i].amount]]

\* TotalPortfolioValue without the loop over cash balances
TotalWithoutCash(holdings, cash_balances, report_date) ==
    HoldingsValue(holdings, report_date)

\* total_portfolio_value after the loop over cash balances
TotalPortfolioValue(holdings, cash_balances, report_date) ==
    FAdd(HoldingsValue(holdings, report_date),
         SumSeq([i \in 1..Len(cash_balances) |-> cash_balances[i].amount], 1))

----------------------------------------------------------------------------
(* Risk measures of the snapshot.                                          *)

calculate_portfolio_delta(holdings_list, total_portfolio_value) ==
    IF ~Truthy(total_portfolio_value) \/ FIsZero(total_portfolio_value) THEN F(0)
    ELSE FDiv(SumSeq([i \in 1..Len(holdings_list) |-> holdings_list[i].current_value], 1),
              total_portfolio_value)

\* portfolio_beta as the if/else of the code leaves it
PortfolioBeta(holdings_list, total_portfolio_value) ==
    IF FLt(F(0), total_portfolio_value) /\ Len(holdings_list) > 0
    THEN SumSeq([i \in 1..Len(holdings_list) |->
                    FMul(FDiv(holdings_list[i].current_value, total_portfolio_value),
                         holdings_list[i].beta)], 1)
    ELSE F(0)

\* portfolio_delta as the if/else of the code leaves it
PortfolioDelta(holdings_list, total_portfolio_value) ==
    IF FLt(F(0), total_portfolio_value) /\ Len(holdings_list) > 0
    THEN calculate_portfolio_delta(holdings_list, total_portfolio_value)
    ELSE F(0)

----------------------------------------------------------------------------
(* calculate_historical_portfolio_value: the Daily Return Series, a        *)
(* sequence of [date, ret] in date order.                                  *)

WindowDays == 365

\* DailyPrice rows of the traded securities up to report, the window start ignored
PricesUpToReport(security_ids, start_date, report_date) ==
    {p \in daily_prices : p.security_id \in security_ids /\ p.price_date <= report_date}

\* DailyPrice rows of the traded securities with price_date between start and report
WindowPrices(security_ids, start_date, report_date) ==
    {p \in daily_prices : /\ p.security_id \in security_ids
                          /\ start_date <= p.price_date
                          /\ p.price_date <= report_date}

\* price_df.reindex(date_range).ffill() at one cell: the last price observed in the
\* window on or before day d, NaN before the first
PriceGridAt(prices, sec_id, d) ==
    LET rows == {p \in prices : p.security_id = sec_id /\ p.price_date <= d}
    IN  IF rows = {} THEN NaN
        ELSE (CHOOSE p \in rows : \A q \in rows : q.price_date <= p.price_date).closing_price

SignedQuantity(trade) ==
    IF trade.trade_type = "BUY" THEN trade.quantity
    ELSE IF trade.trade_type = "SELL" THEN FNeg(trade.quantity)
    ELSE F(0)

\* holdings_df at one cell: every trade adds its quantity from its trade date on
HoldingsGridAt(ts, sec_id, d) ==
    LET mine == SelectSeq(ts, LAMBDA t : t.security_id = sec_id /\ t.trade_date <= d)
    IN  SumSeq([i \in 1..Len(mine) |-> SignedQuantity(mine[i])], 1)

\* holdings_df.mul(price_df).sum(axis=1) at day d: the sum skips NaN cells
DailyValueAt(ts, prices, columns, d) ==
    LET perColumn == [c \in columns |->
                         FMul(HoldingsGridAt(ts, c, d), PriceGridAt(prices, c, d))]
        RECURSIVE SumCols(_)
        SumCols(C) == IF C = {} THEN F(0)
                      ELSE LET c == CHOOSE c \in C : TRUE
                           IN  FAdd(IF IsNaN(perColumn[c]) THEN F(0) ELSE perColumn[c],
                                    SumCols(C \ {c}))
    IN  SumCols(columns)

\* pct_change of one day on the day before: value / previous - 1
PctChange(value, previous) == FSub(FDiv(value, previous), F(1))

\* daily_values, for ts the trades of the portfolio up to report_date, not empty:
\* entry k is the value of day start_date + k - 1
DailyValues(ts, report_date) ==
    LET start_date == report_date - WindowDays
        security_ids == {ts[i].security_id : i \in 1..Len(ts)}
        prices == WindowPrices(security_ids, start_date, report_date)
        columns == {p.security_id : p \in prices}
    IN  [k \in 1..(WindowDays + 1) |-> DailyValueAt(ts, prices, columns, start_date + k - 1)]

\* ts: the trades of the portfolio up to report_date
DailyReturns(ts, report_date) ==
    IF Len(ts) = 0 THEN <<>>
    ELSE LET start_date == report_date - WindowDays
             \* appending <<>> has TLC compute the sequence once
             daily_values == DailyValues(ts, report_date) \o <<>>
             changes == [i \in 1..WindowDays |->
                            [date |-> start_date + i,
                             ret |-> PctChange(daily_values[i + 1], daily_values[i])]]
         IN  SelectSeq(changes, LAMBDA e : IsFinite(e.ret))

calculate_historical_portfolio_value(ledger, portfolio_id, report_date) ==
    DailyReturns(CHOOSE ts \in TradesUpTo(ledger, portfolio_id, report_date) : TRUE,
                 report_date)

----------------------------------------------------------------------------
(* calculate_sharpe_ratio.  std() and mean() are the library's: the sample *)
(* standard deviation (ddof = 1) is NaN for a single element and is zero,  *)
(* in exact arithmetic, exactly when all elements are equal.  The          *)
(* magnitude of a finite Sharpe ratio is not tracked: FiniteNumber stands  *)
(* for a finite float.                                                     *)

FiniteNumber == <<"finite">>

\* round(x, nd) of a float of either representation
RoundNumber(x, nd) == IF x = FiniteNumber THEN x ELSE Round(x, nd)

\* daily_returns.std() as far as the code looks at it: NaN, zero or positive
Std(daily_returns) ==
    IF Len(daily_returns) < 2 THEN NaN
    ELSE IF \A i \in 1..Len(daily_returns) : daily_returns[i].ret = daily_returns[1].ret
         THEN F(0)
         ELSE FiniteNumber

calculate_sharpe_ratio(daily_returns) ==
    IF Len(daily_returns) = 0 \/ Std(daily_returns) = F(0) THEN None
    ELSE \* sqrt(252) * excess_returns.mean() / excess_returns.std()
         IF Std(daily_returns) = NaN THEN NaN ELSE FiniteNumber

----------------------------------------------------------------------------
(* benchmark_performance.                                                  *)

\* MarketIndex.name of the index with this id
IndexName(id) ==
    IF id = 1 THEN "NASDAQ Composite" ELSE IF id = 2 THEN "FTSE 100"
    ELSE IF id = 3 THEN "S&P 500" ELSE IF id = 4 THEN "NIFTY 50" ELSE "DAX"

Periods ==
    << [name |-> "1M", days |-> 30], [name |-> "3M", days |-> 90],
       [name |-> "6M", days |-> 180], [name |-> "1Y", days |-> 365] >>

\* (1 + returns).prod() over rs[lo..hi], a sequence of floats; the product is
\* taken by halves, which in exact arithmetic is the product left to right
RECURSIVE ProdOnePlus(_, _, _)
ProdOnePlus(rs, lo, hi) ==
    IF lo > hi THEN F(1)
    ELSE IF lo = hi THEN FAdd(F(1), rs[lo])
    ELSE LET mid == (lo + hi) \div 2
         IN  FMul(ProdOnePlus(rs, lo, mid), ProdOnePlus(rs, mid + 1, hi))

\* round(((1 + returns).prod() - 1) * 100, 2)
CompoundedPct(rs) == Round(FMul(FSub(ProdOnePlus(rs, 1, Len(rs)), F(1)), F(100)), 2)

PortfolioReturnPct(portfolio_returns, start_date) ==
    LET port_returns_period == SelectSeq(portfolio_returns, LAMBDA e : e.date >= start_date)
    IN  IF Len(port_returns_period) = 0 THEN NA
        ELSE CompoundedPct([i \in 1..Len(port_returns_period) |-> port_returns_period[i].ret])

\* IndexPrice rows of the index between start and report, ordered by price_date
IndexPricesBetween(index_id, start_date, report_date) ==
    LET rows == {p \in index_prices : /\ p.index_id = index_id
                                      /\ start_date <= p.price_date
                                      /\ p.price_date <= report_date}
        RECURSIVE Sorted(_)
        Sorted(S) == IF S = {} THEN <<>>
                     ELSE LET p == CHOOSE p \in S : \A q \in S : p.price_date <= q.price_date
                          IN  <<p>> \o Sorted(S \ {p})
    IN  Sorted(rows)

\* returns taken on the first observation instead of the one before
IndexReturnsOnFirst(rows) ==
    LET changes == [i \in 1..(Len(rows) - 1) |->
                       PctChange(rows[i + 1].closing_value, rows[1].closing_value)]
    IN  SelectSeq(changes, IsFinite)

\* index_df['value'].pct_change() with the non-finite entries dropped
IndexReturns(rows) ==
    LET changes == [i \in 1..(Len(rows) - 1) |->
                       PctChange(rows[i + 1].closing_value, rows[i].closing_value)]
    IN  SelectSeq(changes, IsFinite)

BenchmarkReturnPct(index_id, start_date, report_date) ==
    LET rows == IndexPricesBetween(index_id, start_date, report_date)
    IN  IF Len(rows) = 0 THEN NA
        ELSE IF Len(IndexReturns(rows)) = 0 THEN NA
        ELSE CompoundedPct(IndexReturns(rows))

\* MarketIndex.query.all(), in id order
RECURSIVE AllIndices(_)
AllIndices(S) ==
    IF S = {} THEN <<>>
    ELSE LET i == CHOOSE i \in S : \A j \in S : i <= j
         IN  <<i>> \o AllIndices(S \ {i})

\* the records of the first index only
BenchmarkOfFirstIndex(portfolio_returns, report_date) ==
    LET all_indices == IF market_indices = {} THEN <<>>
                       ELSE <<AllIndices(market_indices)[1]>>
        np == Len(Periods)
    IN  [k \in 1..(Len(all_indices) * np) |->
            LET start_date == report_date - Periods[k].days
            IN  [vs_index |-> Str(IndexName(all_indices[1])),
                 period |-> Periods[k].name,
                 portfolio_return_pct |-> PortfolioReturnPct(portfolio_returns, start_date),
                 benchmark_return_pct |->
                     BenchmarkReturnPct(all_indices[1], start_date, report_date)]]

benchmark_performance(portfolio_returns, report_date) ==
    LET all_indices == AllIndices(market_indices)
        np == Len(Periods)
        \* the portfolio leg of a period is the same for every index
        portfolio_leg == [j \in 1..np |->
                             PortfolioReturnPct(portfolio_returns,
                                                report_date - Periods[j].days)] \o <<>>
    IN  [k \in 1..(Len(all_indices) * np) |->
            LET index == all_indices[((k - 1) \div np) + 1]
                j == ((k - 1) % np) + 1
                start_date == report_date - Periods[j].days
            IN  [vs_index |-> Str(IndexName(index)),
                 period |-> Periods[j].name,
                 portfolio_return_pct |-> portfolio_leg[j],
                 benchmark_return_pct |-> BenchmarkReturnPct(index, start_date, report_date)]]

Placeholders ==
    [k \in 1..Len(Periods) |->
        [vs_index |-> NA, period |-> Periods[k].name,
         portfolio_return_pct |-> NA, benchmark_return_pct |-> NA]]

----------------------------------------------------------------------------
(* generate_portfolio_statement.  ts is the answer of the first trade      *)
(* query, one of the orders its ORDER BY allows.                           *)

NotFound == [error |-> "Portfolio not found"]

StatementOf(ledger, cash_rows, portfolio_id, report_date, ts) ==
    LET holdings == ReplayTrades(ts)
        holdings_list == HoldingsList(holdings, report_date)
        cash_balances == CashBalancesOf(cash_rows, portfolio_id)
        total_portfolio_value == TotalPortfolioValue(holdings, cash_balances, report_date)
        portfolio_beta == PortfolioBeta(holdings_list, total_portfolio_value)
        portfolio_delta == PortfolioDelta(holdings_list, total_portfolio_value)
        daily_returns == calculate_historical_portfolio_value(ledger, portfolio_id, report_date)
        sharpe_ratio == calculate_sharpe_ratio(daily_returns)
        benchmarks == benchmark_performance(daily_returns, report_date)
    IN  [portfolio_id |-> portfolio_id,
         report_date |-> report_date,
         total_portfolio_value |-> Round(total_portfolio_value, 2),
         holdings |-> holdings_list,
         cash_balances |-> CashList(cash_balances),
         risk_measures |->
             [beta |-> IF Len(holdings_list) > 0 THEN Round(portfolio_beta, 2) ELSE NA,
              sharpe_ratio |-> IF sharpe_ratio # None /\ Len(holdings_list) > 0
                               THEN RoundNumber(sharpe_ratio, 2) ELSE NA,
              delta |-> IF Len(holdings_list) > 0 THEN Round(portfolio_delta, 4) ELSE F(0)],
         performance_benchmarks |->
             IF Len(benchmarks) > 0 THEN benchmarks ELSE Placeholders]

----------------------------------------------------------------------------
(* GET /portfolio/<id>/statement.                                          *)

\* a date parameter strptime rejects
BadDate == -1

\* generate_portfolio_statement without the look-up of the portfolio
StatementWithoutLookup(ledger, cash_rows, portfolio_id, report_date, ts) ==
    StatementOf(ledger, cash_rows, portfolio_id, report_date, ts)

\* generate_portfolio_statement, which get_portfolio_statement calls once the date
\* has parsed
generate_portfolio_statement(ledger, cash_rows, portfolio_id, report_date, ts) ==
    IF ~PortfolioExists(portfolio_id) THEN NotFound
    ELSE StatementOf(ledger, cash_rows, portfolio_id, report_date, ts)

StatementResponse(statement) ==
    IF "error" \in DOMAIN statement
    THEN [status |-> 404, body |-> statement]
    ELSE [status |-> 200, body |-> statement]

InvalidDateResponse ==
    [status |-> 400, body |-> [error |-> "Invalid date format. Please use YYYY-MM-DD."]]

----------------------------------------------------------------------------
(* POST /trade.  A request is the JSON payload: NoJson, a payload with a   *)
(* field missing, or the six fields.                                       *)

NoJson == [kind |-> "none"]
MissingField == [kind |-> "missing"]

TradeRequest(pid, sid, d, type, q, p) ==
    [kind |-> "trade", portfolio_id |-> pid, security_id |-> sid, trade_date |-> d,
     trade_type |-> type, quantity |-> q, price_per_unit |-> p]

\* str.upper() on the trade types the requests carry
Upper(type) ==
    IF type = "buy" THEN "BUY" ELSE IF type = "sell" THEN "SELL"
    ELSE IF type = "hold" THEN "HOLD" ELSE type

\* float(x) of a field of the payload returns: the field is a number, not a string
\* such as Str("ten")
Parses(x) == Len(x) = 2

\* how far add_trade gets before it touches the session: the error response it
\* returns, or "ok"
Validate(req) ==
    IF req.kind = "none" THEN [status |-> 400, body |-> [error |-> "Invalid JSON payload"]]
    ELSE IF req.kind = "missing"
    THEN [status |-> 400, body |-> [error |-> "Missing required fields"]]
    ELSE IF ~PortfolioExists(req.portfolio_id) \/ ~SecurityExists(req.security_id)
    THEN [status |-> 404, body |-> [error |-> "Portfolio or Security not found"]]
    ELSE IF \/ req.trade_date = BadDate
            \/ ~Parses(req.quantity) \/ ~Parses(req.price_per_unit)
            \/ Upper(req.trade_type) \notin {"BUY", "SELL"}
    THEN [status |-> 400, body |-> [error |-> "Invalid data provided"]]
    ELSE [status |-> 0, body |-> [message |-> "ok"]]

Valid(req) == Validate(req).status = 0

\* new_trade
NewTrade(req) ==
    [portfolio_id |-> req.portfolio_id, security_id |-> req.security_id,
     trade_date |-> req.trade_date, trade_type |-> Upper(req.trade_type),
     quantity |-> req.quantity, price_per_unit |-> req.price_per_unit]

\* CashBalance.query.filter_by(portfolio_id, currency).first(): the row's position, or 0
FirstCash(rows, pid, currency) ==
    IF \E i \in 1..Len(rows) : rows[i].portfolio_id = pid /\ rows[i].currency = currency
    THEN CHOOSE i \in 1..Len(rows) :
             /\ rows[i].portfolio_id = pid /\ rows[i].currency = currency
             /\ \A j \in 1..(i - 1) : ~(rows[j].portfolio_id = pid /\ rows[j].currency = currency)
    ELSE 0

\* steps 4 of add_trade on the rows the session sees: find or create the balance
\* and move it by quantity * price
CashAfterTrade(rows, trade) ==
    LET currency == GetSecurity(trade.security_id).currency
        k == FirstCash(rows, trade.portfolio_id, currency)
        with == IF k = 0
                THEN Append(rows, [portfolio_id |-> trade.portfolio_id,
                                   currency |-> currency, amount |-> F(0)])
                ELSE rows
        j == IF k = 0 THEN Len(with) ELSE k
        total_amount == FMul(trade.quantity, trade.price_per_unit)
    IN  [with EXCEPT ![j].amount =
            IF trade.trade_type = "BUY" THEN FSub(@, total_amount) ELSE FAdd(@, total_amount)]

TradeAdded == [status |-> 201, body |-> [message |-> "Trade added successfully"]]

ServerError == [status |-> 500, body |-> [error |-> "An internal server error occurred."]]

----------------------------------------------------------------------------
(* The data the model runs on.                                             *)

MaxTrades == 3

ReportDates == {400, 401}

\* table daily_prices: 101 priced before and inside the year before the reports,
\* 111 priced once, at a sixteenth
DailyPriceTable ==
    { [security_id |-> 101, price_date |-> 20,  closing_price |-> F(1)],
      [security_id |-> 101, price_date |-> 350, closing_price |-> F(2)],
      [security_id |-> 101, price_date |-> 400, closing_price |-> F(3)],
      [security_id |-> 111, price_date |-> 300, closing_price |-> <<1, 16>>] }

\* table index_prices when there are indices: index 1 at 100, 110, 99 on three
\* consecutive days, index 2 sparse and once at zero, index 3 observed twice, the
\* first time at zero
IndexPriceTable ==
    { [index_id |-> 1, price_date |-> 398, closing_value |-> F(100)],
      [index_id |-> 1, price_date |-> 399, closing_value |-> F(110)],
      [index_id |-> 1, price_date |-> 400, closing_value |-> F(99)],
      [index_id |-> 2, price_date |-> 20,  closing_value |-> F(40)],
      [index_id |-> 2, price_date |-> 100, closing_value |-> F(0)],
      [index_id |-> 2, price_date |-> 200, closing_value |-> F(50)],
      [index_id |-> 2, price_date |-> 390, closing_value |-> F(55)],
      [index_id |-> 3, price_date |-> 395, closing_value |-> F(0)],
      [index_id |-> 3, price_date |-> 399, closing_value |-> F(44)] }

IndexScenarios ==
    { [indices |-> {}, prices |-> {}],
      [indices |-> {1, 2, 3}, prices |-> IndexPriceTable] }

\* the trade requests clients send
TradeRequests ==
    { TradeRequest(1, 101, 30,  "BUY",  F(2), F(1)),
      TradeRequest(1, 101, 399, "BUY",  F(1), F(2)),
      TradeRequest(1, 101, 399, "sell", F(1), F(2)),
      TradeRequest(1, 101, 399, "SELL", F(2), F(1)),
      TradeRequest(1, 111, 30,  "BUY",  F(2), F(1)),
      TradeRequest(1, 111, 30,  "SELL", F(1), F(2)),
      TradeRequest(1, 101, 401, "buy",  F(1), F(1)) }

BadRequests ==
    { NoJson, MissingField,
      TradeRequest(2, 101, 30, "BUY", F(1), F(1)),
      TradeRequest(1, 999, 30, "BUY", F(1), F(1)),
      TradeRequest(1, 101, BadDate, "BUY", F(1), F(1)),
      TradeRequest(1, 101, 30, "hold", F(1), F(1)) }

\* the statement requests clients send: [portfolio_id, date]
StatementRequests ==
    [kind : {"statement"}, portfolio_id : Portfolios \cup {2},
     date : ReportDates \cup {BadDate}]

Workers == {"w1", "w2"}
NoWorker == "none"
Idle == [pc |-> "idle"]
NoResponse == [status |-> 0, body |-> [message |-> "none"]]

----------------------------------------------------------------------------
(* The server handling one request at a time (a single worker): a request  *)
(* arrives, its handler runs whole, the response goes out.  response[w] is *)
(* the response to the last request worker w took, NoResponse while the    *)
(* request is being handled.                                               *)

TheWorker == "w1"

Init ==
    /\ trades = <<>>
    /\ cash = <<>>
    /\ daily_prices = DailyPriceTable
    /\ \E sc \in IndexScenarios : market_indices = sc.indices /\ index_prices = sc.prices
    /\ dblock = NoWorker
    /\ sess = [w \in Workers |-> Idle]
    /\ response = [w \in Workers |-> NoResponse]

\* the requests in progress that will add a trade unless they fail
TradesInFlight ==
    Cardinality({w \in Workers : /\ sess[w].pc # "idle"
                                 /\ sess[w].req.kind = "trade"
                                 /\ Valid(sess[w].req)})

\* a request reaches worker w
Receive(w, req) ==
    /\ sess[w].pc = "idle"
    /\ (req.kind = "trade" /\ Valid(req)) => Len(trades) + TradesInFlight < MaxTrades
    /\ sess' = [sess EXCEPT ![w] = [pc |-> "request", req |-> req]]
    /\ response' = [response EXCEPT ![w] = NoResponse]
    /\ UNCHANGED <<dbvars, dblock>>

Respond(w, r) ==
    /\ response' = [response EXCEPT ![w] = r]
    /\ sess' = [sess EXCEPT ![w] = Idle]

\* add_trade, a request it rejects
AddTradeRejected(w) ==
    /\ sess[w].pc = "request" /\ sess[w].req.kind # "statement"
    /\ ~Valid(sess[w].req)
    /\ Respond(w, Validate(sess[w].req))
    /\ UNCHANGED <<dbvars, dblock>>

\* add_trade, a request it commits
AddTrade(w) ==
    /\ sess[w].pc = "request" /\ sess[w].req.kind # "statement"
    /\ Valid(sess[w].req)
    /\ trades' = Append(trades, NewTrade(sess[w].req))
    /\ cash' = CashAfterTrade(cash, NewTrade(sess[w].req))
    /\ Respond(w, TradeAdded)
    /\ UNCHANGED <<daily_prices, index_prices, market_indices, dblock>>

\* get_portfolio_statement with a date that does not parse
GetStatementBadDate(w) ==
    /\ sess[w].pc = "request" /\ sess[w].req.kind = "statement"
    /\ sess[w].req.date = BadDate
    /\ Respond(w, InvalidDateResponse)
    /\ UNCHANGED <<dbvars, dblock>>

\* get_portfolio_statement
GetStatement(w) ==
    /\ sess[w].pc = "request" /\ sess[w].req.kind = "statement"
    /\ sess[w].req.date # BadDate
    /\ \E ts \in TradesUpToJoinSecurity(trades, sess[w].req.portfolio_id, sess[w].req.date) :
          Respond(w, StatementResponse(
              generate_portfolio_statement(trades, cash, sess[w].req.portfolio_id,
                                           sess[w].req.date, ts)))
    /\ UNCHANGED <<dbvars, dblock>>

Next ==
    \/ \E req \in TradeRequests \cup BadRequests \cup StatementRequests :
          Receive(TheWorker, req)
    \/ AddTradeRejected(TheWorker)
    \/ AddTrade(TheWorker)
    \/ GetStatementBadDate(TheWorker)
    \/ GetStatement(TheWorker)

Spec == Init /\ [][Next]_vars

----------------------------------------------------------------------------
(* The threaded server: every worker handles a request of its own, in a    *)
(* session of its own, and the handlers interleave at their database       *)
(* accesses.  SQLite admits one writing transaction at a time: the INSERT  *)
(* of new_trade, which the autoflush before the cash-balance query sends,  *)
(* opens the transaction and takes the write lock; commit and rollback     *)
(* release it.  A reader sees committed rows only.                         *)

ConcRequests ==
    { TradeRequest(1, 101, 30,  "BUY",  F(2), F(1)),
      TradeRequest(1, 101, 399, "sell", F(1), F(2)),
      TradeRequest(1, 101, 30, "hold", F(1), F(1)),
      [kind |-> "statement", portfolio_id |-> 1, date |-> 400],
      [kind |-> "statement", portfolio_id |-> 2, date |-> 400] }

\* add_trade up to db.session.add(new_trade)
TAdd(w) ==
    /\ sess[w].pc = "request" /\ sess[w].req.kind # "statement"
    /\ Valid(sess[w].req)
    /\ sess' = [sess EXCEPT ![w] = [pc |-> "added", req |-> @.req, trade |-> NewTrade(@.req)]]
    /\ UNCHANGED <<dbvars, dblock, response>>

\* the autoflush of the cash-balance query: INSERT INTO trades takes the write lock
TFlush(w) ==
    /\ sess[w].pc = "added"
    /\ dblock = NoWorker
    /\ dblock' = w
    /\ sess' = [sess EXCEPT ![w].pc = "flushed"]
    /\ UNCHANGED <<dbvars, response>>

\* a rollback that would keep the INSERT the autoflush has sent
RolledBackKeepingInsert(w) ==
    IF sess[w].pc \in {"flushed", "dirty"} THEN Append(trades, sess[w].trade) ELSE trades

\* what a rollback leaves of the two tables the session wrote to
RolledBackTrades(w) == trades

RolledBackCash(w) == cash

\* except Exception: db.session.rollback(), 500
Rollback(w) ==
    /\ trades' = RolledBackTrades(w)
    /\ cash' = RolledBackCash(w)
    /\ dblock' = IF dblock = w THEN NoWorker ELSE dblock
    /\ Respond(w, ServerError)
    /\ UNCHANGED <<daily_prices, index_prices, market_indices>>

\* the INSERT finds the database locked until its busy timeout runs out
TFlushLocked(w) ==
    /\ sess[w].pc = "added"
    /\ dblock # NoWorker
    /\ Rollback(w)

\* the cash-balance query and the update of the balance, in the session
TCash(w) ==
    /\ sess[w].pc = "flushed"
    /\ sess' = [sess EXCEPT ![w] = [pc |-> "dirty", req |-> @.req, trade |-> @.trade,
                                    cash_rows |-> CashAfterTrade(cash, @.trade)]]
    /\ UNCHANGED <<dbvars, dblock, response>>

\* a commit that would apply the cash effect of the trade once more
CommittedCashTwice(w) == CashAfterTrade(sess[w].cash_rows, sess[w].trade)

\* what db.session.commit() writes to the two tables
CommittedTrades(w) == Append(trades, sess[w].trade)

CommittedCash(w) == sess[w].cash_rows

\* db.session.commit(), 201
TCommit(w) ==
    /\ sess[w].pc = "dirty"
    /\ trades' = CommittedTrades(w)
    /\ cash' = CommittedCash(w)
    /\ dblock' = NoWorker
    /\ Respond(w, TradeAdded)
    /\ UNCHANGED <<daily_prices, index_prices, market_indices>>

\* an exception of the database once the transaction is open
TFail(w) ==
    /\ sess[w].pc \in {"flushed", "dirty"}
    /\ Rollback(w)

\* generate_portfolio_statement, an unknown portfolio
SNotFound(w) ==
    /\ sess[w].pc = "request" /\ sess[w].req.kind = "statement"
    /\ sess[w].req.date # BadDate
    /\ ~PortfolioExists(sess[w].req.portfolio_id)
    /\ Respond(w, StatementResponse(NotFound))
    /\ UNCHANGED <<dbvars, dblock>>

\* generate_portfolio_statement, the trade query
SQueryTrades(w) ==
    /\ sess[w].pc = "request" /\ sess[w].req.kind = "statement"
    /\ sess[w].req.date # BadDate
    /\ PortfolioExists(sess[w].req.portfolio_id)
    /\ \E ts \in TradesUpToJoinSecurity(trades, sess[w].req.portfolio_id, sess[w].req.date) :
          sess' = [sess EXCEPT ![w] = [pc |-> "trades_read", req |-> @.req, ts |-> ts]]
    /\ UNCHANGED <<dbvars, dblock, response>>

\* generate_portfolio_statement, the cash-balance query
SQueryCash(w) ==
    /\ sess[w].pc = "trades_read"
    /\ sess' = [sess EXCEPT ![w] = [pc |-> "cash_read", req |-> @.req, ts |-> @.ts,
                                    cash_rows |-> cash]]
    /\ UNCHANGED <<dbvars, dblock, response>>

\* generate_portfolio_statement from the trade query of
\* calculate_historical_portfolio_value on
SFinish(w) ==
    /\ sess[w].pc = "cash_read"
    /\ Respond(w, StatementResponse(
           StatementOf(trades, sess[w].cash_rows, sess[w].req.portfolio_id,
                       sess[w].req.date, sess[w].ts)))
    /\ UNCHANGED <<dbvars, dblock>>

NextConc ==
    \/ \E w \in Workers, req \in ConcRequests : Receive(w, req)
    \/ \E w \in Workers : AddTradeRejected(w)
    \/ \E w \in Workers : TAdd(w)
    \/ \E w \in Workers : TFlush(w)
    \/ \E w \in Workers : TFlushLocked(w)
    \/ \E w \in Workers : TCash(w)
    \/ \E w \in Workers : TCommit(w)
    \/ \E w \in Workers : TFail(w)
    \/ \E w \in Workers : SNotFound(w)
    \/ \E w \in Workers : SQueryTrades(w)
    \/ \E w \in Workers : SQueryCash(w)
    \/ \E w \in Workers : SFinish(w)

SpecConc == Init /\ [][NextConc]_vars

----------------------------------------------------------------------------
(* POST /trade on its own, with payloads of any quantity and price: zero,  *)
(* negative, or not a number at all.                                       *)

AnyTradeRequests ==
    { TradeRequest(1, 101, 30, "BUY",  F(2), F(1)),
      TradeRequest(1, 101, 30, "sell", F(1), F(2)),
      TradeRequest(1, 111, 30, "BUY",  F(0), F(1)),
      TradeRequest(1, 101, 30, "BUY",  F(-1), F(1)),
      TradeRequest(1, 101, 30, "SELL", F(1), F(0)),
      TradeRequest(1, 111, 30, "SELL", F(1), F(-2)),
      TradeRequest(1, 101, 30, "BUY",  Str("ten"), F(1)),
      TradeRequest(1, 101, 30, "BUY",  F(1), Str("")) }

NextTrades ==
    \/ \E req \in AnyTradeRequests \cup BadRequests : Receive(TheWorker, req)
    \/ AddTradeRejected(TheWorker)
    \/ AddTrade(TheWorker)

SpecTrades == Init /\ [][NextTrades]_vars

----------------------------------------------------------------------------
(* get_price_on_date on its own: the table daily_prices is any table of    *)
(* observations with one closing price per security and day, and a worker  *)
(* calls the function with any security id and date; sess[w] keeps the     *)
(* arguments and the value returned.                                       *)

MaxPriceDate == 3

PriceDates == 1..MaxPriceDate

ClosingPrices == {F(5), <<1, 16>>}

PriceObservations ==
    [security_id : SecurityIds, price_date : PriceDates, closing_price : ClosingPrices]

\* the tables the price loader writes: at most one observation per security and day
PriceTables ==
    {T \in SUBSET PriceObservations :
        \A p, q \in T : (p.security_id = q.security_id /\ p.price_date = q.price_date)
                             => p = q}

InitPrices ==
    /\ trades = <<>>
    /\ cash = <<>>
    /\ daily_prices \in PriceTables
    /\ market_indices = {} /\ index_prices = {}
    /\ dblock = NoWorker
    /\ sess = [w \in Workers |-> Idle]
    /\ response = [w \in Workers |-> NoResponse]

GetPriceOnDate(w, security_id, target_date) ==
    /\ sess' = [sess EXCEPT ![w] = [pc |-> "price", security_id |-> security_id,
                                    target_date |-> target_date,
                                    price |-> get_price_on_date(security_id, target_date)]]
    /\ UNCHANGED <<dbvars, dblock, response>>

NextPrices ==
    \E security_id \in SecurityIds \cup {999}, target_date \in 0..(MaxPriceDate + 1) :
        GetPriceOnDate(TheWorker, security_id, target_date)

SpecPrices == InitPrices /\ [][NextPrices]_vars

----------------------------------------------------------------------------
(* What the properties below read off a state: the statement a worker has  *)
(* answered with, and sums over the ledger taken row by row, without the   *)
(* replay.  Under Spec the tables are those the statement was computed     *)
(* from: the next request clears the response before its handler runs.     *)

IsStatement(w) == response[w].status = 200

Stmt(w) == response[w].body

ReportedTickers(w) == {Stmt(w).holdings[i].ticker : i \in 1..Len(Stmt(w).holdings)}

\* the entry of holdings with this ticker
ReportedHolding(w, ticker) ==
    Stmt(w).holdings[CHOOSE i \in 1..Len(Stmt(w).holdings) : Stmt(w).holdings[i].ticker = ticker]

RECURSIVE SumFn(_)
SumFn(f) ==
    IF DOMAIN f = {} THEN F(0)
    ELSE LET i == CHOOSE i \in DOMAIN f : TRUE
         IN  FAdd(f[i], SumFn([j \in (DOMAIN f) \ {i} |-> f[j]]))

\* the rows of a ledger of one portfolio, security and direction up to a date
RowsOf(ledger, pid, sid, type, date) ==
    {i \in 1..Len(ledger) : /\ ledger[i].portfolio_id = pid
                            /\ ledger[i].security_id = sid
                            /\ ledger[i].trade_type = type
                            /\ ledger[i].trade_date <= date}

Quantity(ledger, pid, sid, type, date) ==
    SumFn([i \in RowsOf(ledger, pid, sid, type, date) |-> ledger[i].quantity])

BuyCost(ledger, pid, sid, date) ==
    SumFn([i \in RowsOf(ledger, pid, sid, "BUY", date) |->
              FMul(ledger[i].quantity, ledger[i].price_per_unit)])

NetQuantity(ledger, pid, sid, date) ==
    FSub(Quantity(ledger, pid, sid, "BUY", date), Quantity(ledger, pid, sid, "SELL", date))

NoTradesUpTo(pid, date) ==
    \A i \in 1..Len(trades) : ~(trades[i].portfolio_id = pid /\ trades[i].trade_date <= date)

\* the sum of the cash balances of a portfolio
CashTotal(pid) ==
    SumFn([i \in {k \in 1..Len(cash) : cash[k].portfolio_id = pid} |-> cash[i].amount])

----------------------------------------------------------------------------
(* C1.  A security is among the holdings of a statement only if its net    *)
(* quantity (BUY quantities minus SELL quantities of the trades up to the  *)
(* report date) is strictly positive; in particular a security bought and  *)
(* sold in equal quantity is not among them.                               *)
C1_OnlyPositiveNetReported ==
    \A w \in Workers :
        IsStatement(w) =>
            \A s \in Securities :
                LET pid == Stmt(w).portfolio_id
                    date == Stmt(w).report_date
                    bought == Quantity(trades, pid, s.id, "BUY", date)
                    sold == Quantity(trades, pid, s.id, "SELL", date)
                IN  /\ s.ticker \in ReportedTickers(w) => FLt(F(0), FSub(bought, sold))
                    /\ bought = sold => s.ticker \notin ReportedTickers(w)

\* a statement over a ledger in which a security was bought and sold out again
C1_Witness ==
    \E w \in Workers :
        /\ IsStatement(w)
        /\ \E s \in Securities :
              LET bought == Quantity(trades, Stmt(w).portfolio_id, s.id, "BUY", Stmt(w).report_date)
                  sold == Quantity(trades, Stmt(w).portfolio_id, s.id, "SELL", Stmt(w).report_date)
              IN  FLt(F(0), bought) /\ bought = sold /\ s.ticker \notin ReportedTickers(w)

----------------------------------------------------------------------------
\* a ledger without the SELL trades of one security
WithoutSells(ledger, sid) ==
    SelectSeq(ledger, LAMBDA t : ~(t.security_id = sid /\ t.trade_type = "SELL"))

\* the average buy prices a statement over a ledger reports for a ticker, over
\* every order the trade query may answer in
AvgBuyPricesOn(ledger, pid, date, ticker) ==
    UNION { {l[i].average_buy_price : i \in {k \in 1..Len(l) : l[k].ticker = ticker}} :
            l \in {HoldingsList(ReplayTrades(ts), date) :
                      ts \in TradesUpToJoinSecurity(ledger, pid, date)} }

(* C2.  The average buy price a statement reports for a security is        *)
(* (sum of BUY quantity x price) / (sum of BUY quantity) over its BUY      *)
(* trades up to the report date, to two decimals, and it is the average    *)
(* the statement reports over the same ledger with that security's SELL    *)
(* trades taken out: the SELL trades have no part in it.                   *)
C2_AvgBuyPriceFromBuysOnly ==
    \A w \in Workers :
        IsStatement(w) =>
            \A s \in Securities :
                s.ticker \in ReportedTickers(w) =>
                    LET pid == Stmt(w).portfolio_id
                        date == Stmt(w).report_date
                        avg == ReportedHolding(w, s.ticker).average_buy_price
                    IN  /\ avg = Round(FDiv(BuyCost(trades, pid, s.id, date),
                                            Quantity(trades, pid, s.id, "BUY", date)), 2)
                        /\ AvgBuyPricesOn(WithoutSells(trades, s.id), pid, date, s.ticker)
                               = {avg}

\* a statement reporting a security bought twice at different prices and sold once
C2_Witness ==
    \E w \in Workers :
        /\ IsStatement(w)
        /\ \E s \in Securities :
              LET buys == RowsOf(trades, Stmt(w).portfolio_id, s.id, "BUY", Stmt(w).report_date)
                  sells == RowsOf(trades, Stmt(w).portfolio_id, s.id, "SELL", Stmt(w).report_date)
              IN  /\ s.ticker \in ReportedTickers(w)
                  /\ sells # {}
                  /\ \E i, j \in buys : trades[i].price_per_unit # trades[j].price_per_unit

----------------------------------------------------------------------------
PeriodNames == {"1M", "3M", "6M", "1Y"}

\* the benchmark records of a statement without returns of the portfolio: for
\* every index one record per period with the portfolio return "N/A", and
\* without any index four records, one per period, all "N/A"
BenchmarksWithoutPortfolioReturn(w) ==
    LET bs == Stmt(w).performance_benchmarks
        names == IF market_indices = {} THEN {NA}
                 ELSE {Str(IndexName(i)) : i \in market_indices}
    IN  /\ Len(bs) = Cardinality(names) * Cardinality(PeriodNames)
        /\ \A n \in names, p \in PeriodNames :
              \E k \in 1..Len(bs) : bs[k].vs_index = n /\ bs[k].period = p
        /\ \A k \in 1..Len(bs) : bs[k].portfolio_return_pct = NA
        /\ market_indices = {} => \A k \in 1..Len(bs) : bs[k].benchmark_return_pct = NA

\* C3 as the specification states it: without trades up to the report date the
\* statement has total value zero, no holdings, beta and Sharpe ratio "N/A",
\* delta 0 and four benchmark records per index without a portfolio return.
C3_NoTradesZeroValue ==
    \A w \in Workers :
        (IsStatement(w) /\ NoTradesUpTo(Stmt(w).portfolio_id, Stmt(w).report_date)) =>
            /\ Stmt(w).total_portfolio_value = F(0)
            /\ Stmt(w).holdings = <<>>
            /\ Stmt(w).risk_measures.beta = NA
            /\ Stmt(w).risk_measures.sharpe_ratio = NA
            /\ Stmt(w).risk_measures.delta = F(0)
            /\ BenchmarksWithoutPortfolioReturn(w)

(* C3, amended.  Without trades up to the report date the total value of   *)
(* the statement is the sum of the portfolio's cash balances, to two       *)
(* decimals (zero when it has none); the holdings are empty, beta and      *)
(* Sharpe ratio are "N/A", delta is 0, and there are four benchmark        *)
(* records per index, one per period, with the portfolio return "N/A"      *)
(* (four records "N/A" throughout when there is no index).                 *)
C3_NoTradesCashOnly ==
    \A w \in Workers :
        (IsStatement(w) /\ NoTradesUpTo(Stmt(w).portfolio_id, Stmt(w).report_date)) =>
            /\ Stmt(w).total_portfolio_value = Round(CashTotal(Stmt(w).portfolio_id), 2)
            /\ Stmt(w).holdings = <<>>
            /\ Stmt(w).risk_measures.beta = NA
            /\ Stmt(w).risk_measures.sharpe_ratio = NA
            /\ Stmt(w).risk_measures.delta = F(0)
            /\ BenchmarksWithoutPortfolioReturn(w)

\* a statement for a date before the first trade, of a portfolio with cash
C3_Witness ==
    \E w \in Workers :
        /\ IsStatement(w)
        /\ NoTradesUpTo(Stmt(w).portfolio_id, Stmt(w).report_date)
        /\ ~FIsZero(CashTotal(Stmt(w).portfolio_id))
        /\ market_indices # {}
        /\ Stmt(w).total_portfolio_value = CashTotal(Stmt(w).portfolio_id)

----------------------------------------------------------------------------
(* C4.  A statement request for a portfolio id that matches no portfolio   *)
(* is answered with status 404 and a body that is the not-found error and  *)
(* nothing else, and the step leaves every table as it was.                *)
C4_NotFoundOnly ==
    [][\A w \in Workers :
          (/\ sess[w].pc = "request"
           /\ sess[w].req.kind = "statement"
           /\ sess[w].req.date # BadDate
           /\ ~PortfolioExists(sess[w].req.portfolio_id)
           /\ sess'[w].pc = "idle")
          => /\ response'[w] = [status |-> 404, body |-> [error |-> "Portfolio not found"]]
             /\ UNCHANGED dbvars]_vars

\* the not-found answer, given over tables that hold trades and cash
C4_Witness ==
    \E w \in Workers :
        /\ response[w] = [status |-> 404, body |-> [error |-> "Portfolio not found"]]
        /\ Len(trades) > 0
        /\ Len(cash) > 0

----------------------------------------------------------------------------
(* C5.  Trade entry is all-or-nothing under every interleaving of the      *)
(* workers: in every committed state of the database each trade row is     *)
(* there together with its cash adjustment (per portfolio and currency     *)
(* there is a balance row exactly when the ledger has a trade in that      *)
(* currency, one row, whose amount is the sum of SELL amounts minus the    *)
(* sum of BUY amounts); a request that ends in anything but 201 leaves     *)
(* trades and cash_balances as they were, no new zero balance row          *)
(* included; and the two tables change only by the commit of one whole     *)
(* trade.                                                                  *)

Currencies == {s.currency : s \in Securities}

\* the rows of a ledger of one portfolio and currency
LedgerRows(ledger, pid, currency) ==
    {i \in 1..Len(ledger) : /\ ledger[i].portfolio_id = pid
                            /\ GetSecurity(ledger[i].security_id).currency = currency}

\* what those trades have paid in and out
LedgerCash(ledger, pid, currency) ==
    SumFn([i \in LedgerRows(ledger, pid, currency) |->
              IF ledger[i].trade_type = "BUY"
              THEN FNeg(FMul(ledger[i].quantity, ledger[i].price_per_unit))
              ELSE FMul(ledger[i].quantity, ledger[i].price_per_unit)])

CashMatchesLedger(ledger, rows) ==
    \A pid \in Portfolios, c \in Currencies :
        LET found == {k \in 1..Len(rows) : rows[k].portfolio_id = pid /\ rows[k].currency = c}
        IN  IF LedgerRows(ledger, pid, c) = {} THEN found = {}
            ELSE /\ Cardinality(found) = 1
                 /\ \A k \in found : rows[k].amount = LedgerCash(ledger, pid, c)

C5_TradeEntryAllOrNothing ==
    [][ /\ CashMatchesLedger(trades', cash')
        /\ \A w \in Workers :
              (response'[w] # response[w] /\ response'[w].status # 201)
                  => (trades' = trades /\ cash' = cash)
        /\ (trades' # trades \/ cash' # cash)
              => \E w \in Workers : /\ sess[w].pc = "dirty"
                                    /\ response'[w] = TradeAdded
                                    /\ trades' = Append(trades, sess[w].trade)
                                    /\ Len(trades') = Len(trades) + 1 ]_vars

\* one trade is committed, a second request has failed with its INSERT sent or
\* refused, and a statement is between its trade query and its cash query
C5_Witness ==
    /\ Len(trades) >= 1 /\ Len(cash) >= 1
    /\ \E w, v \in Workers :
          /\ response[w] = ServerError
          /\ sess[v].pc \in {"trades_read", "flushed", "dirty"}

----------------------------------------------------------------------------
(* C6.  The Sharpe ratio of a statement is "N/A" whenever the Daily Return *)
(* Series of the portfolio has fewer than 2 elements or all its elements   *)
(* are equal (zero variance), and it is a number only when the series has  *)
(* at least 2 elements that are not all equal.                             *)

\* the Daily Return Series of the portfolio and date of worker w's statement
SeriesOf(w) ==
    calculate_historical_portfolio_value(trades, Stmt(w).portfolio_id, Stmt(w).report_date)

ZeroVariance(series) == \A i, j \in 1..Len(series) : series[i].ret = series[j].ret

C6_SharpeUndefinedOnShortSeries ==
    \A w \in Workers :
        IsStatement(w) =>
            LET series == SeriesOf(w)
                sharpe == Stmt(w).risk_measures.sharpe_ratio
            IN  /\ (Len(series) < 2 \/ ZeroVariance(series)) => sharpe = NA
                /\ sharpe # NA => (Len(series) >= 2 /\ ~ZeroVariance(series))

----------------------------------------------------------------------------
(* C7.  The beta of a statement is "N/A" when there are no reportable      *)
(* holdings or when the total portfolio value (value of the holdings plus  *)
(* all cash balances) is <= 0; otherwise it is the sum over the holdings   *)
(* of current_value / total value times the security's beta (a missing     *)
(* beta counting 0), rounded to 2 decimals.                                *)

\* the securities of a portfolio with a positive net quantity at a date
HeldSecurities(pid, date) ==
    {sid \in SecurityIds : FLt(F(0), NetQuantity(trades, pid, sid, date))}

\* value of the holdings plus cash, from the ledger and the tables
TotalValue(pid, date) ==
    FAdd(SumFn([sid \in HeldSecurities(pid, date) |->
                   FMul(get_price_on_date(sid, date), NetQuantity(trades, pid, sid, date))]),
         CashTotal(pid))

WeightedBeta(w) ==
    LET hs == Stmt(w).holdings
        total == TotalValue(Stmt(w).portfolio_id, Stmt(w).report_date)
    IN  Round(SumFn([i \in 1..Len(hs) |->
                        FMul(FDiv(hs[i].current_value, total), hs[i].beta)]), 2)

C7_BetaUndefinedOrWeighted ==
    \A w \in Workers :
        IsStatement(w) =>
            LET total == TotalValue(Stmt(w).portfolio_id, Stmt(w).report_date)
                beta == Stmt(w).risk_measures.beta
            IN  IF Len(Stmt(w).holdings) = 0 \/ ~FLt(F(0), total)
                THEN beta = NA
                ELSE beta = WeightedBeta(w)

----------------------------------------------------------------------------
(* C8.  The delta of a statement is exactly 1 for a portfolio with at      *)
(* least one reportable holding whose cash balances are all zero or        *)
(* absent, and exactly 0 for a portfolio without reportable holdings.      *)

ZeroCash(pid) ==
    \A k \in 1..Len(cash) : cash[k].portfolio_id = pid => cash[k].amount = F(0)

C8_DeltaOneAllEquityZeroAllCash ==
    \A w \in Workers :
        IsStatement(w) =>
            LET delta == Stmt(w).risk_measures.delta
            IN  /\ (Len(Stmt(w).holdings) > 0 /\ ZeroCash(Stmt(w).portfolio_id))
                      => delta = F(1)
                /\ Len(Stmt(w).holdings) = 0 => delta = F(0)

----------------------------------------------------------------------------
(* C9.  For every index and period the benchmark return of a statement is  *)
(* the product of (1 + r) minus 1, as a percentage rounded to 2 decimals,  *)
(* over the returns r between consecutive observed prices of the index in  *)
(* [report_date - period, report_date], non-finite returns dropped, and    *)
(* "N/A" when no return is left (fewer than 2 observations, or none with a *)
(* non-zero observation before it).  Prices 100, 110, 99 on consecutive    *)
(* days give -1 (percent).                                                 *)

Observed(index_id, start_date, report_date) ==
    {p \in index_prices : /\ p.index_id = index_id
                          /\ start_date <= p.price_date /\ p.price_date <= report_date}

\* the pairs of consecutive observations whose return is finite
Transitions(obs) ==
    {pq \in obs \X obs :
        /\ pq[1].price_date < pq[2].price_date
        /\ ~\E r \in obs : pq[1].price_date < r.price_date /\ r.price_date < pq[2].price_date
        /\ IsFinite(FSub(FDiv(pq[2].closing_value, pq[1].closing_value), F(1)))}

RECURSIVE Compounded(_)
Compounded(pairs) ==
    IF pairs = {} THEN F(1)
    ELSE LET pq == CHOOSE pq \in pairs : TRUE
         IN  FMul(FDiv(pq[2].closing_value, pq[1].closing_value), Compounded(pairs \ {pq}))

ObservedReturnPct(index_id, days, report_date) ==
    LET pairs == Transitions(Observed(index_id, report_date - days, report_date))
    IN  IF pairs = {} THEN NA
        ELSE Round(FMul(FSub(Compounded(pairs), F(1)), F(100)), 2)

\* the records of a statement for one index and period
RecordsOf(w, index_id, name) ==
    {k \in 1..Len(Stmt(w).performance_benchmarks) :
        /\ Stmt(w).performance_benchmarks[k].vs_index = Str(IndexName(index_id))
        /\ Stmt(w).performance_benchmarks[k].period = name}

C9_BenchmarkCompounded ==
    \A w \in Workers :
        IsStatement(w) =>
            /\ \A index_id \in market_indices : \A j \in 1..Len(Periods) :
                  \A k \in RecordsOf(w, index_id, Periods[j].name) :
                      Stmt(w).performance_benchmarks[k].benchmark_return_pct
                          = ObservedReturnPct(index_id, Periods[j].days, Stmt(w).report_date)
            /\ (1 \in market_indices /\ Stmt(w).report_date = 400) =>
                  \A k \in RecordsOf(w, 1, "1M") :
                      Stmt(w).performance_benchmarks[k].benchmark_return_pct = F(-1)

\* a statement with the index at 100, 110, 99 compounded to -1, an index with a
\* single observation in the period and one whose only return is infinite
C9_Witness ==
    \E w \in Workers :
        /\ IsStatement(w) /\ Stmt(w).report_date = 400
        /\ \E k \in RecordsOf(w, 1, "1M") :
              Stmt(w).performance_benchmarks[k].benchmark_return_pct = F(-1)
        /\ \E k \in RecordsOf(w, 2, "1Y") :
              Stmt(w).performance_benchmarks[k].benchmark_return_pct = F(10)
        /\ \E k \in RecordsOf(w, 2, "1M") :
              Stmt(w).performance_benchmarks[k].benchmark_return_pct = NA
        /\ Cardinality(Observed(3, 370, 400)) = 2
        /\ \E k \in RecordsOf(w, 3, "1M") :
              Stmt(w).performance_benchmarks[k].benchmark_return_pct = NA

----------------------------------------------------------------------------
(* C10.  The benchmark records of a statement are exactly one for each     *)
(* pair of a market index and a period of 1M, 3M, 6M, 1Y, that is 4 times  *)
(* the number of indices, whatever the portfolio holds; when there is no   *)
(* market index they are exactly four placeholders, one per period, with   *)
(* index name, portfolio return and benchmark return all "N/A".            *)

----------------------------------------------------------------------------
(* C11.  get_price_on_date(security, d) returns the closing price of the   *)
(* observation of that security with the greatest price_date <= d, and 0   *)
(* when the security has no observation with price_date <= d; what it      *)
(* returns is never taken from an observation dated after d or of another  *)
(* security.                                                               *)

\* the observations get_price_on_date may answer from
ObservedUpTo(security_id, d) ==
    {p \in daily_prices : p.security_id = security_id /\ p.price_date <= d}

C11_LatestPriceOnOrBefore ==
    \A w \in Workers :
        sess[w].pc = "price" =>
            LET rows == ObservedUpTo(sess[w].security_id, sess[w].target_date)
            IN  IF rows = {} THEN sess[w].price = F(0)
                ELSE \E p \in rows :
                        /\ sess[w].price = p.closing_price
                        /\ \A q \in rows : q.price_date <= p.price_date

\* the security has an observation before the date and a different one after it,
\* another security has a different one on the date, and the first is returned
C11_Witness ==
    \E w \in Workers :
        /\ sess[w].pc = "price" /\ sess[w].security_id = 101 /\ sess[w].target_date = 2
        /\ [security_id |-> 101, price_date |-> 1, closing_price |-> F(5)] \in daily_prices
        /\ [security_id |-> 101, price_date |-> 3, closing_price |-> <<1, 16>>] \in daily_prices
        /\ [security_id |-> 111, price_date |-> 2, closing_price |-> <<1, 16>>] \in daily_prices
        /\ ~\E p \in daily_prices : p.security_id = 101 /\ p.price_date = 2
        /\ sess[w].price = F(5)

----------------------------------------------------------------------------
(* C12.  No numeric field of a statement is NaN or an infinity: the total  *)
(* value, every number of every holding, every cash amount, the three risk *)
(* measures and both returns of every benchmark record are finite numbers  *)
(* or the "N/A" sentinel.                                                  *)

\* a finite float, of either representation
FiniteFloat(x) == x = FiniteNumber \/ (Len(x) = 2 /\ IsFinite(x))

FiniteOrNA(x) == x = NA \/ FiniteFloat(x)

C12_NoNaNOrInfInStatement ==
    \A w \in Workers :
        IsStatement(w) =>
            LET st == Stmt(w)
            IN  /\ FiniteFloat(st.total_portfolio_value)
                /\ \A i \in 1..Len(st.holdings) :
                      /\ FiniteFloat(st.holdings[i].quantity)
                      /\ FiniteFloat(st.holdings[i].average_buy_price)
                      /\ FiniteFloat(st.holdings[i].buy_value)
                      /\ FiniteFloat(st.holdings[i].current_price)
                      /\ FiniteFloat(st.holdings[i].current_value)
                      /\ FiniteFloat(st.holdings[i].gain_loss)
                      /\ FiniteFloat(st.holdings[i].beta)
                /\ \A i \in 1..Len(st.cash_balances) : FiniteFloat(st.cash_balances[i].amount)
                /\ FiniteOrNA(st.risk_measures.beta)
                /\ FiniteOrNA(st.risk_measures.sharpe_ratio)
                /\ FiniteOrNA(st.risk_measures.delta)
                /\ \A k \in 1..Len(st.performance_benchmarks) :
                      /\ FiniteOrNA(st.performance_benchmarks[k].portfolio_return_pct)
                      /\ FiniteOrNA(st.performance_benchmarks[k].benchmark_return_pct)

----------------------------------------------------------------------------
(* C13.  Every trade row of the ledger has direction BUY or SELL, a        *)
(* positive quantity and a positive price per unit.                        *)

WellFormedTrade(t) ==
    /\ t.trade_type \in {"BUY", "SELL"}
    /\ FLt(F(0), t.quantity)
    /\ FLt(F(0), t.price_per_unit)

C13_LedgerRowsWellFormed ==
    \A i \in 1..Len(trades) : WellFormedTrade(trades[i])

----------------------------------------------------------------------------
(* C14.  For a portfolio with a trade up to the report date, the daily     *)
(* values of calculate_historical_portfolio_value are one per calendar day *)
(* of [report_date - 365, report_date], 366 without a gap, and the value   *)
(* of day d is the sum over the securities the portfolio has traded of the *)
(* net quantity of all its trades dated <= d, those before the window      *)
(* start included, times the latest price of the security observed in      *)
(* [window start, d], 0 when there is none.                                *)

TradedSecurities(pid, date) ==
    {trades[i].security_id : i \in {k \in 1..Len(trades) : /\ trades[k].portfolio_id = pid
                                                            /\ trades[k].trade_date <= date}}

\* the latest price of the security observed between two days, 0 when there is none
LatestPriceWithin(sid, from, d) ==
    LET seen == {p \in daily_prices : /\ p.security_id = sid
                                      /\ from <= p.price_date /\ p.price_date <= d}
    IN  IF seen = {} THEN F(0)
        ELSE (CHOOSE p \in seen : \A q \in seen : q.price_date <= p.price_date).closing_price

ValueOfDay(pid, report_date, d) ==
    SumFn([sid \in TradedSecurities(pid, report_date) |->
              FMul(NetQuantity(trades, pid, sid, d),
                   LatestPriceWithin(sid, report_date - WindowDays, d))])

\* daily_values of the portfolio and date of worker w's statement
DailyValuesOf(w) ==
    DailyValues(CHOOSE ts \in TradesUpTo(trades, Stmt(w).portfolio_id, Stmt(w).report_date) : TRUE,
                Stmt(w).report_date)

C14_DailyValueOfEveryDay ==
    \A w \in Workers :
        (IsStatement(w) /\ ~NoTradesUpTo(Stmt(w).portfolio_id, Stmt(w).report_date)) =>
            LET daily_values == DailyValuesOf(w) \o <<>>
                start_date == Stmt(w).report_date - WindowDays
            IN  /\ Len(daily_values) = 366
                /\ \A k \in 1..Len(daily_values) :
                      daily_values[k] = ValueOfDay(Stmt(w).portfolio_id, Stmt(w).report_date,
                                                   start_date + k - 1)

\* 2 of security 101 bought on day 30, before the window of the report of day 400
\* starts on day 35; its price of day 20 is outside the window, so the value is 0 on
\* day 35 and 2 x 2 from day 350 on
C14_Witness ==
    \E w \in Workers :
        /\ IsStatement(w) /\ Stmt(w).report_date = 400
        /\ Len(trades) = 1 /\ trades[1].trade_date = 30 /\ trades[1].security_id = 101
        /\ trades[1].trade_type = "BUY" /\ trades[1].quantity = F(2)
        /\ DailyValuesOf(w)[1] = F(0)
        /\ DailyValuesOf(w)[350 - 35 + 1] = F(4)
        /\ DailyValuesOf(w)[366] = F(6)

----------------------------------------------------------------------------
(* C15.  Cash conservation: after any interleaving of add_trade requests,  *)
(* for every portfolio and currency there is at most one cash-balance row, *)
(* and its amount (nothing before the requests, so 0 when there is no row) *)
(* is the sum of quantity x price of the committed SELL trades in          *)
(* securities of that currency minus the same sum of the committed BUY     *)
(* trades: no effect of a committed trade is lost or applied twice.        *)

\* the sum of quantity x price of the committed trades of one direction in
\* securities of one currency
Turnover(pid, currency, type) ==
    SumFn([i \in {k \in 1..Len(trades) :
                    /\ trades[k].portfolio_id = pid
                    /\ trades[k].trade_type = type
                    /\ \E sec \in Securities : /\ sec.id = trades[k].security_id
                                                /\ sec.currency = currency}
              |-> FMul(trades[i].quantity, trades[i].price_per_unit)])

BalanceRows(pid, currency) ==
    {k \in 1..Len(cash) : cash[k].portfolio_id = pid /\ cash[k].currency = currency}

\* the persisted balance: the sum over the rows of the portfolio and currency
PersistedBalance(pid, currency) ==
    SumFn([k \in BalanceRows(pid, currency) |-> cash[k].amount])

C15_CashConserved ==
    \A pid \in Portfolios, currency \in Currencies :
        /\ Cardinality(BalanceRows(pid, currency)) <= 1
        /\ PersistedBalance(pid, currency)
              = FSub(Turnover(pid, currency, "SELL"), Turnover(pid, currency, "BUY"))

\* both workers have committed a BUY of 2 at 1, one having waited for the other:
\* one row, at -4
C15_Witness ==
    /\ Len(trades) = 2
    /\ \A i \in 1..2 : trades[i].trade_type = "BUY"
    /\ \A w \in Workers : response[w] = TradeAdded
    /\ Len(cash) = 1 /\ cash[1].amount = F(-4)

----------------------------------------------------------------------------
(* C16.  Tie-order independence of the replay: the trade query orders by   *)
(* trade_date only, and whichever of the orders it allows (they differ in  *)
(* the order of trades of the same date) the replay runs in, it computes   *)
(* for every security the same quantity, total cost, total quantity bought *)
(* and first trade date, and the statement has the same holdings, total    *)
(* portfolio value, beta and delta.                                        *)

Range(seq) == {seq[i] : i \in 1..Len(seq)}

\* the orders the trade query of worker w's statement may answer in
ReplayOrders(w) ==
    TradesUpToJoinSecurity(trades, Stmt(w).portfolio_id, Stmt(w).report_date)

HoldingsIn(w, ts) == HoldingsList(ReplayTrades(ts), Stmt(w).report_date)

TotalIn(w, ts) ==
    TotalPortfolioValue(ReplayTrades(ts), CashBalancesOf(cash, Stmt(w).portfolio_id),
                        Stmt(w).report_date)

C16_ReplayTieOrderIndependent ==
    \A w \in Workers :
        IsStatement(w) =>
            /\ \A ts1, ts2 \in ReplayOrders(w) :
                  Range(ReplayTrades(ts1)) = Range(ReplayTrades(ts2))
            /\ \A ts \in ReplayOrders(w) :
                  /\ Range(HoldingsIn(w, ts)) = Range(Stmt(w).holdings)
                  /\ Len(HoldingsIn(w, ts)) = Len(Stmt(w).holdings)
                  /\ Round(TotalIn(w, ts), 2) = Stmt(w).total_portfolio_value
                  /\ Len(HoldingsIn(w, ts)) > 0 =>
                        /\ Round(PortfolioBeta(HoldingsIn(w, ts), TotalIn(w, ts)), 2)
                              = Stmt(w).risk_measures.beta
                        /\ Round(PortfolioDelta(HoldingsIn(w, ts), TotalIn(w, ts)), 4)
                              = Stmt(w).risk_measures.delta

\* three trades of day 30, a purchase and a sale of one security and a purchase of
\* another: six orders, the sale replayed before or after the purchase, and the two
\* holdings listed in either order
C16_Witness ==
    \E w \in Workers :
        /\ IsStatement(w)
        /\ Len(trades) = 3 /\ \A i \in 1..3 : trades[i].trade_date = 30
        /\ Cardinality(ReplayOrders(w)) = 6
        /\ \E i, j \in 1..3 : /\ trades[i].security_id = trades[j].security_id
                               /\ trades[i].trade_type = "BUY" /\ trades[j].trade_type = "SELL"
        /\ Len(Stmt(w).holdings) = 2
        /\ \E ts1, ts2 \in ReplayOrders(w) : HoldingsIn(w, ts1) # HoldingsIn(w, ts2)

=============================================================================
